---- MODULE Spec2Model ----
(***************************************************************************)
(* The news microservices: the API gateway (api-gateway/main.go, kept as   *)
(* src/unnamed/part_001), the censor service (src/unnamed/part_000), the   *)
(* comment service (src/comment-service/main.go) and the news aggregator   *)
(* (src/news-aggregator/main.go).                                          *)
(*                                                                         *)
(* The gateway owns no shared state: its requests meet only in the        *)
(* services behind it.  The model follows one gateway request at a time    *)
(* from the middleware chain to the end of its handler goroutine; the      *)
(* comment table, its id sequence and the clock carry over to the next     *)
(* request.  Every blocking point of a handler is one pc value and the     *)
(* code between two blocking points is one action.  The clock counts       *)
(* seconds and advances TickLen at a time; a clock value stands for the    *)
(* interval [now, now + TickLen).                                          *)
(***************************************************************************)
EXTENDS Integers, Sequences, FiniteSets, TLC

(***************************************************************************)
(* Bounds of the model.                                                    *)
(***************************************************************************)
MaxComments == 2
MaxTicks == 4

(***************************************************************************)
(* Program constants.                                                      *)
(***************************************************************************)
OverallTimeout == 30
ClientTimeout == 10
StatusOK == 200
StatusBadRequest == 400
StatusNotFound == 404
StatusInternalServerError == 500
StatusServiceUnavailable == 503

TickLen == ClientTimeout

(***************************************************************************)
(* Texts are sequences of one-letter strings.  Letters outside ASCII are   *)
(* written by name ("cy_i" is CYRILLIC SMALL LETTER SHORT I, and so on).   *)
(***************************************************************************)
UpperLetters == <<"A","B","C","D","E","F","G","H","I","J","K","L","M",
                  "N","O","P","Q","R","S","T","U","V","W","X","Y","Z">>
LowerLetters == <<"a","b","c","d","e","f","g","h","i","j","k","l","m",
                  "n","o","p","q","r","s","t","u","v","w","x","y","z">>

ToLowerChar(c) ==
  IF \E i \in 1..Len(UpperLetters) : UpperLetters[i] = c
  THEN LowerLetters[CHOOSE i \in 1..Len(UpperLetters) : UpperLetters[i] = c]
  ELSE c

\* A lowering that leaves the letters as they are.
ToLowerNone(s) == s

ToLower(s) == [i \in 1..Len(s) |-> ToLowerChar(s[i])]

\* strings.TrimSpace: the text without its leading and trailing white space.
IsSpace(c) == c \in {" ", "\t", "\n", "\r"}

TrimSpace(s) ==
  LET kept == {i \in 1..Len(s) : ~IsSpace(s[i])}
  IN  IF kept = {} THEN <<>>
      ELSE SubSeq(s, CHOOSE i \in kept : \A j \in kept : i <= j,
                     CHOOSE i \in kept : \A j \in kept : i >= j)

Contains(s, sub) ==
  \E i \in 0..(Len(s) - Len(sub)) :
     \A j \in 1..Len(sub) : s[i + j] = sub[j]

InitialBannedWords ==
  { <<"q","w","e","r","t","y">>,
    <<"cy_i","cy_ts","cy_u","cy_k","cy_e","cy_n">>,
    <<"z","x","v","b","n","m">> }

NewCensorService == { ToLower(w) : w \in InitialBannedWords }

(***************************************************************************)
(* HTTP replies.  A body is either plain text (http.Error), a JSON         *)
(* document (json.NewEncoder(w).Encode) or a JSON document cut short on    *)
(* the wire.                                                               *)
(***************************************************************************)
NoData == [t |-> "none"]
NoReply == [code |-> 0, ctype |-> "", fmt |-> "", status |-> "", error |-> "",
            data |-> NoData]

NoPayload == [t |-> "none"]

HttpError(msg, code) ==
  [code |-> code, ctype |-> "text/plain", fmt |-> "text", status |-> "",
   error |-> msg, data |-> NoData]

EncodeResponse(status, data) ==
  [code |-> StatusOK, ctype |-> "application/json", fmt |-> "json",
   status |-> status, error |-> "", data |-> data]

EncodeValue(data) ==
  [code |-> StatusOK, ctype |-> "application/json", fmt |-> "json",
   status |-> "", error |-> "", data |-> data]

Truncated(reply) == [reply EXCEPT !.fmt = "cut"]

DecodeOK(reply) == reply.fmt = "json"

(***************************************************************************)
(* strconv.Atoi on a sequence of letters: an optional sign, then digits.   *)
(***************************************************************************)
Digits == <<"0","1","2","3","4","5","6","7","8","9">>

IsDigit(c) == \E i \in 1..Len(Digits) : Digits[i] = c

DigitVal(c) == (CHOOSE i \in 1..Len(Digits) : Digits[i] = c) - 1

RECURSIVE DigitsVal(_)
DigitsVal(s) ==
  IF s = <<>> THEN 0
  ELSE 10 * DigitsVal(SubSeq(s, 1, Len(s) - 1)) + DigitVal(s[Len(s)])

Atoi(s) ==
  LET signed == Len(s) > 0 /\ s[1] \in {"+", "-"}
      ds     == IF signed THEN Tail(s) ELSE s
      ok     == Len(ds) > 0 /\ \A i \in 1..Len(ds) : IsDigit(ds[i])
  IN  [ok |-> ok,
       v  |-> IF ~ok THEN 0
              ELSE IF signed /\ s[1] = "-" THEN 0 - DigitsVal(ds)
              ELSE DigitsVal(ds)]

\* fmt.Sprintf("%d", n)
RECURSIVE NatDigits(_)
NatDigits(n) ==
  IF n < 10 THEN <<Digits[n + 1]>>
  ELSE NatDigits(n \div 10) \o <<Digits[(n % 10) + 1]>>

Itoa(n) == IF n < 0 THEN <<"-">> \o NatDigits(0 - n) ELSE NatDigits(n)

\* Go's integer division truncates toward zero.
GoDiv(a, b) ==
  LET q == (IF a < 0 THEN 0 - a ELSE a) \div (IF b < 0 THEN 0 - b ELSE b)
  IN  IF (a < 0) = (b < 0) THEN q ELSE 0 - q

Nil == {}
Ptr(v) == {v}
Deref(p) == CHOOSE v \in p : TRUE

VARIABLES
  pc,          \* where the handler goroutine of the current request is
  req,         \* the inbound request
  ctx,         \* the value bound to "request_id" in the request context
  out,         \* the downstream calls made for the request, in order
  net,         \* the downstream call in flight
  hresp,       \* what the handler wrote to its ResponseWriter
  timedOut,    \* http.TimeoutHandler has answered 503 for the request
  startAt,     \* clock value when the timeout handler started
  callAt,      \* clock value when the call in flight was issued
  mine,        \* ids of the rows inserted on behalf of the request
  now,         \* the clock
  comments,    \* the comments table of the comment service
  nextID,      \* the AUTOINCREMENT sequence of the comments table
  bannedWords, \* CensorService.bannedWords
  prev,        \* the last GET /news/{id} payload a client has kept
  sp,          \* the handler goroutines of the comment service's own clients
  cz           \* the goroutines inside the censor service and its RWMutex

vars == <<pc, req, ctx, out, net, hresp, timedOut, startAt, callAt,
          mine, now, comments, nextID, bannedWords, prev, sp, cz>>

(***************************************************************************)
(* Censor service (src/unnamed/part_000).                                  *)
(***************************************************************************)
\* The goroutines that call into the CensorService, and what is kept of a
\* call: the method, its argument, where the goroutine is (about to take
\* the lock, waiting for the readers to leave, inside, returned), the lock
\* it holds, the reply of checkHandler, and the banned words as they were
\* when IsBanned looked at them.
Goroutines == {"g1", "g2", "g3"}

IdleGoroutine ==
  [pc |-> "idle", op |-> "", arg |-> <<>>, held |-> "", reply |-> NoReply,
   seen |-> {}]

IsBanned(text) ==
  LET lowerText == ToLower(text)
  IN  \E word \in bannedWords : Contains(lowerText, word)

checkHandler(text) ==
  IF IsBanned(text)
  THEN HttpError("Text contains prohibited content", StatusBadRequest)
  ELSE EncodeResponse("success", [t |-> "message", message |-> "Text is clean"])

(***************************************************************************)
(* News aggregator (src/news-aggregator/main.go).  The mock items carry    *)
(* the time of the call, shifted by a fixed number of hours.               *)
(***************************************************************************)
Hour == 3600

MockNews(t) ==
  << [id |-> 1, title |-> <<"T","e">>, content |-> <<"n","e","w">>,
      date |-> t],
     [id |-> 2, title |-> <<"E","c">>, content |-> <<"n","o","w">>,
      date |-> t - 24 * Hour],
     [id |-> 3, title |-> <<"P","o">>, content |-> <<"n","e","w">>,
      date |-> t - 48 * Hour],
     [id |-> 4, title |-> <<"S","p">>, content |-> <<"o","l","d">>,
      date |-> t - 12 * Hour],
     [id |-> 5, title |-> <<"A","r">>, content |-> <<"n","e","w">>,
      date |-> t - 36 * Hour] >>

\* toLower, contains and containsIgnoreCase of the aggregator: only the
\* letters A..Z of the substring are lowered, the text is taken as it is.
newsToLower(s) == [i \in 1..Len(s) |-> ToLowerChar(s[i])]

newsContains(s, substr) ==
  Len(s) >= Len(substr) /\ (s = substr \/ Len(substr) = 0 \/ Contains(s, substr))

containsIgnoreCase(s, substr) ==
  newsContains(s, substr) \/ newsContains(s, newsToLower(substr))

\* The items the search filter keeps, in order.
RECURSIVE Filtered(_, _)
Filtered(items, search) ==
  IF items = <<>> THEN <<>>
  ELSE (IF containsIgnoreCase(Head(items).title, search)
           \/ containsIgnoreCase(Head(items).content, search)
        THEN <<Head(items)>> ELSE <<>>) \o Filtered(Tail(items), search)

findNewsByID(id, t) ==
  LET mockNews == MockNews(t)
  IN  IF \E i \in 1..Len(mockNews) : mockNews[i].id = id
      THEN Ptr(mockNews[CHOOSE i \in 1..Len(mockNews) : mockNews[i].id = id])
      ELSE Nil

\* A not-found answer written as a JSON envelope.
NewsNotFoundEnvelope ==
  [code |-> StatusNotFound, ctype |-> "application/json", fmt |-> "json",
   status |-> "error", error |-> "News not found", data |-> NoData]

NewsNotFound == HttpError("News not found", StatusNotFound)

newsGetNewsByIDHandler(idStr, t) ==
  LET id == Atoi(idStr)
  IN  IF ~id.ok THEN HttpError("Invalid news ID", StatusBadRequest)
      ELSE LET news == findNewsByID(id.v, t)
           IN  IF news = Nil THEN NewsNotFound
               ELSE EncodeValue([t |-> "news", item |-> Deref(news)])

\* mockNews[start:end]; Go panics when the bounds are out of range.
generateMockNews(page, pageSize, search, t) ==
  LET mockNews == IF search # <<>> THEN Filtered(MockNews(t), search)
                  ELSE MockNews(t)
      start0   == (page - 1) * pageSize
      start    == IF start0 >= Len(mockNews) THEN Len(mockNews) ELSE start0
      end0     == start + pageSize
      end      == IF end0 > Len(mockNews) THEN Len(mockNews) ELSE end0
  IN  IF start < 0 \/ end < start
      THEN [panic |-> TRUE, news |-> <<>>]
      ELSE [panic |-> FALSE, news |-> SubSeq(mockNews, start + 1, end)]

\* middleware.Recoverer answers a panic with an empty 500.
Recovered ==
  [code |-> StatusInternalServerError, ctype |-> "", fmt |-> "empty",
   status |-> "", error |-> "", data |-> NoData]

newsGetNewsHandler(pageStr, pageSizeStr, search, t) ==
  LET page0     == Atoi(pageStr).v
      page      == IF page0 = 0 THEN 1 ELSE page0
      pageSize0 == Atoi(pageSizeStr).v
      pageSize  == IF pageSize0 = 0 THEN 10 ELSE pageSize0
      got       == generateMockNews(page, pageSize, search, t)
      total     == Len(got.news)
      totalPages == GoDiv(total + pageSize - 1, pageSize)
  IN  IF got.panic THEN Recovered
      ELSE EncodeResponse("success",
             [t |-> "newslist", list |-> got.news,
              pagination |-> Ptr([page |-> page, page_size |-> pageSize,
                                  total |-> total,
                                  total_pages |-> totalPages])])

(***************************************************************************)
(* Comment service (src/comment-service/main.go).  dbErr names the         *)
(* statement of the handler at which the database reports an error.        *)
(***************************************************************************)
DbErrs == {"none", "check", "insert", "select"}

\* An existence check that lets the parent_id 0 through.
ParentExistsOrZero(p) == p = 0 \/ \E c \in comments : c.id = p

ParentExists(p) == \E c \in comments : c.id = p

\* A table without AUTOINCREMENT: the next rowid is one more than the largest
\* one in the table.
NextRowIDAfterLargest ==
  IF comments = {} THEN 1
  ELSE 1 + (CHOOSE n \in {c.id : c \in comments} :
              \A c \in comments : c.id <= n)

\* id INTEGER PRIMARY KEY AUTOINCREMENT: one more than the largest id the
\* table ever held.
NextRowID == nextID

\* The row an INSERT writes: id from the sequence, created_at from the clock.
InsertedRow(r) ==
  [id |-> NextRowID, news_id |-> r.news_id,
   parent_id |-> IF r.parent_id # Nil /\ Deref(r.parent_id) > 0
                 THEN r.parent_id ELSE Nil,
   text |-> r.text, created_at |-> now]

\* createCommentHandler: the reply and the row it leaves in the table (a
\* set with at most one element).
storeCreateComment(r, dbErr) ==
  IF r.text = <<>>
  THEN [reply |-> HttpError("Comment text is required", StatusBadRequest),
        rows |-> {}]
  ELSE IF r.news_id <= 0
  THEN [reply |-> HttpError("Valid news ID is required", StatusBadRequest),
        rows |-> {}]
  ELSE IF r.parent_id # Nil /\ dbErr = "check"
  THEN [reply |-> HttpError("Failed to validate parent comment",
                            StatusInternalServerError), rows |-> {}]
  ELSE IF r.parent_id # Nil /\ ~ParentExists(Deref(r.parent_id))
  THEN [reply |-> HttpError("Parent comment does not exist", StatusBadRequest),
        rows |-> {}]
  ELSE IF dbErr = "insert"
  THEN [reply |-> HttpError("Failed to save comment",
                            StatusInternalServerError), rows |-> {}]
  ELSE IF dbErr = "select"
  THEN [reply |-> HttpError("Failed to fetch inserted comment",
                            StatusInternalServerError),
        rows |-> {InsertedRow(r)}]
  ELSE [reply |-> EncodeResponse("success",
                    [t |-> "comment", comment |-> InsertedRow(r)]),
        rows |-> {InsertedRow(r)}]

\* The orders ORDER BY created_at ASC may return a set of rows in.
RECURSIVE SortedLists(_)
SortedLists(rows) ==
  IF rows = {} THEN {<<>>}
  ELSE UNION { { <<c>> \o rest : rest \in SortedLists(rows \ {c}) } :
               c \in { e \in rows : \A d \in rows : e.created_at <= d.created_at } }

\* A list handler that reports a failed query in a JSON envelope.
storeGetCommentsJsonError(newsIDStr, dbErr) ==
  IF newsIDStr = <<>>
  THEN {HttpError("news_id parameter is required", StatusBadRequest)}
  ELSE IF ~Atoi(newsIDStr).ok
  THEN {HttpError("Invalid news_id parameter", StatusBadRequest)}
  ELSE IF dbErr # "none"
  THEN {[EncodeResponse("error", NoData) EXCEPT
           !.code = StatusInternalServerError,
           !.error = "Failed to fetch comments"]}
  ELSE { EncodeResponse("success", [t |-> "comments", list |-> l]) :
         l \in SortedLists({c \in comments : c.news_id = Atoi(newsIDStr).v}) }

\* A list handler whose query has no WHERE clause.
storeGetCommentsOfAllNews(newsIDStr, dbErr) ==
  IF newsIDStr = <<>>
  THEN {HttpError("news_id parameter is required", StatusBadRequest)}
  ELSE IF ~Atoi(newsIDStr).ok
  THEN {HttpError("Invalid news_id parameter", StatusBadRequest)}
  ELSE IF dbErr # "none"
  THEN {HttpError("Failed to fetch comments", StatusInternalServerError)}
  ELSE { EncodeResponse("success", [t |-> "comments", list |-> l]) :
         l \in SortedLists(comments) }

\* getCommentsHandler: the replies it may give for ?news_id=newsIDStr.
storeGetComments(newsIDStr, dbErr) ==
  IF newsIDStr = <<>>
  THEN {HttpError("news_id parameter is required", StatusBadRequest)}
  ELSE IF ~Atoi(newsIDStr).ok
  THEN {HttpError("Invalid news_id parameter", StatusBadRequest)}
  ELSE IF dbErr # "none"
  THEN {HttpError("Failed to fetch comments", StatusInternalServerError)}
  ELSE { EncodeResponse("success", [t |-> "comments", list |-> l]) :
         l \in SortedLists({c \in comments : c.news_id = Atoi(newsIDStr).v}) }

\* The direct clients of the comment service, each with one request at a
\* time, and what is kept of a request: the handler's position, its input,
\* the id it works on, its reply, whether the row it asked for was in the
\* table when it arrived, whether a statement of it failed, and the rows it
\* wrote and removed.
Clients == {"c1", "c2"}

IdleClient ==
  [pc |-> "idle", op |-> "", arg |-> NoData, id |-> 0, reply |-> NoReply,
   found |-> FALSE, failed |-> FALSE, wrote |-> {}, removed |-> {}]

\* sqlite3 enforces foreign keys only when the connection asks for it, and
\* sql.Open("sqlite3", dbPath) does not.
ForeignKeys == FALSE

(***************************************************************************)
(* API gateway (src/unnamed/part_001).                                     *)
(***************************************************************************)
NoHeader == ""

UUIDs == {"uuid-1", "uuid-2"}

\* A middleware that generates an identifier for every request.
requestIDMiddlewareAlwaysFresh(header, uuid) ==
  IF header = "" THEN uuid ELSE "uuid-1"

requestIDMiddleware(header, uuid) ==
  IF header = "" THEN uuid ELSE header

\* uuid.New() is called only for a request without the header.
NewUUIDs(header) == IF header = "" THEN UUIDs ELSE {""}

NoCall ==
  [stage |-> "none", svc |-> "", method |-> "", path |-> "", xrid |-> "",
   arg |-> NoData, reply |-> NoReply]

Call(svc, method, path, xrid, arg) ==
  [stage |-> "sent", svc |-> svc, method |-> method, path |-> path,
   xrid |-> xrid, arg |-> arg, reply |-> NoReply]

\* The record kept of a call: what was sent, whether the timeout handler had
\* answered by then, and how the call ended for the handler.
Logged(call) ==
  [svc |-> call.svc, method |-> call.method, path |-> call.path,
   xrid |-> call.xrid, late |-> timedOut, outcome |-> "pending", code |-> 0]

\* The call in flight has returned to the handler.
Returned(err, reply) ==
  [out EXCEPT ![Len(out)] =
     [@ EXCEPT !.outcome = IF err THEN "error"
                           ELSE IF DecodeOK(reply) THEN "reply" ELSE "undecodable",
               !.code = IF err THEN 0 ELSE reply.code]]

\* http.TimeoutHandler(next, timeout, "Request timeout")
TimeoutReply ==
  [code |-> StatusServiceUnavailable, ctype |-> "", fmt |-> "text",
   status |-> "", error |-> "Request timeout", data |-> NoData]

\* What the client of the gateway has received.
ClientGot ==
  IF timedOut THEN TimeoutReply
  ELSE IF pc = "done" THEN hresp
  ELSE NoReply

Elapsed == now - startAt

\* The timer of the timeout handler fires before the handler goroutine runs on.
HandlerMayRun == timedOut \/ Elapsed < OverallTimeout

Running == pc \notin {"idle", "done"}

\* The handler writes its reply and returns.
Finish(reply, log) ==
  /\ hresp' = reply
  /\ pc' = "done"
  /\ net' = NoCall
  /\ out' = log
  /\ UNCHANGED <<req, ctx, timedOut, startAt, callAt, mine, now,
                 comments, nextID, bannedWords, prev, sp, cz>>

\* The handler issues a downstream call and blocks on it.
Issue(where, call, log) ==
  /\ pc' = where
  /\ net' = call
  /\ out' = Append(log, Logged(call))
  /\ callAt' = now
  /\ UNCHANGED <<req, ctx, hresp, timedOut, startAt, mine, now,
                 comments, nextID, bannedWords, prev, sp, cz>>

\* A validation that forgets the news id.
ValidateTextOnly(r) ==
  IF r.text = <<>> THEN "Comment text is required" ELSE ""

\* createCommentHandler, input validation: the error message, "" if none.
Validate(r) ==
  IF r.text = <<>> THEN "Comment text is required"
  ELSE IF r.news_id <= 0 THEN "Valid news ID is required"
  ELSE ""

\* A gate that does not look at the status of the censor's reply.
AfterCensorIgnoringStatus(err, reply) ==
  IF err THEN "unavailable" ELSE "allowed"

\* A gate that fails open: an unreachable censor lets the comment through.
AfterCensorFailOpen(err, reply) ==
  IF err THEN "allowed"
  ELSE IF reply.code # StatusOK THEN "rejected"
  ELSE "allowed"

\* createCommentHandler, what follows the censor call.
AfterCensor(err, reply) ==
  IF err THEN "unavailable"
  ELSE IF reply.code # StatusOK THEN "rejected"
  ELSE "allowed"

\* A relay that answers success without the stored comment.
AfterPersistWithoutData(err, reply) ==
  IF err THEN HttpError("Failed to save comment", StatusInternalServerError)
  ELSE IF reply.code # StatusOK
  THEN HttpError("Failed to save comment", StatusInternalServerError)
  ELSE IF ~DecodeOK(reply)
  THEN HttpError("Failed to decode comment response", StatusInternalServerError)
  ELSE EncodeResponse(reply.status, NoData)

\* A relay that hands the store's own failure status on to the client.
AfterPersistRelayingStatus(err, reply) ==
  IF err THEN HttpError("Failed to save comment", StatusInternalServerError)
  ELSE IF reply.code # StatusOK
  THEN HttpError("Failed to save comment", reply.code)
  ELSE IF ~DecodeOK(reply)
  THEN HttpError("Failed to decode comment response", StatusInternalServerError)
  ELSE EncodeResponse(reply.status, reply.data)

\* createCommentHandler, what follows the comment service call.
AfterPersist(err, reply) ==
  IF err THEN HttpError("Failed to save comment", StatusInternalServerError)
  ELSE IF reply.code # StatusOK
  THEN HttpError("Failed to save comment", StatusInternalServerError)
  ELSE IF ~DecodeOK(reply)
  THEN HttpError("Failed to decode comment response", StatusInternalServerError)
  ELSE EncodeResponse(reply.status, reply.data)

CommentPayload(r) ==
  [news_id |-> r.news_id, parent_id |-> r.parent_id, text |-> r.text]

\* The header client.Get(url) sends, and the one the handlers set by hand.
GetHeader(rid) == NoHeader
PostHeader(rid) == rid

(***************************************************************************)
(* The requests a client may send.                                         *)
(***************************************************************************)
Headers == {"", "rid-7"}
Texts == { <<>>, <<"h","i">>, <<"a","Q","w","E","r","t","y">> }
NewsIDs == {0, 1}
ParentIDs == {Nil, Ptr(0), Ptr(1)}
IDStrings == { <<"1">>, <<"9">>, <<"x">> }
PageStrings == { <<>>, <<"2">>, <<"-","1">> }
PageSizeStrings == { <<>>, <<"2">>, <<"-","2">> }
Searches == { <<>>, <<"N","E","W">> }

Request(kind, header, bodyOK, text, newsID, parentID, id, page) ==
  [kind |-> kind, header |-> header, bodyOK |-> bodyOK, text |-> text,
   news_id |-> newsID, parent_id |-> parentID, id |-> id, page |-> page.page,
   page_size |-> page.page_size, search |-> page.search]

NoPage == [page |-> <<>>, page_size |-> <<>>, search |-> <<>>]

NoRequest == Request("", "", FALSE, <<>>, 0, Nil, <<>>, NoPage)

CommentRequests ==
  { Request("comment", h, TRUE, t, n, p, <<>>, NoPage) :
      h \in Headers, t \in Texts, n \in NewsIDs, p \in ParentIDs }
  \cup { Request("comment", h, FALSE, <<>>, 0, Nil, <<>>, NoPage) : h \in Headers }

NewsByIDRequests ==
  { Request("newsByID", h, TRUE, <<>>, 0, Nil, id, NoPage) :
      h \in Headers, id \in IDStrings }

NewsRequests ==
  { Request("news", h, TRUE, <<>>, 0, Nil, <<>>,
            [page |-> page, page_size |-> size, search |-> search]) :
      h \in Headers, page \in PageStrings, size \in PageSizeStrings,
      search \in Searches }

Init ==
  /\ pc = "idle"
  /\ req = NoRequest
  /\ ctx = ""
  /\ out = <<>>
  /\ net = NoCall
  /\ hresp = NoReply
  /\ timedOut = FALSE
  /\ startAt = 0
  /\ callAt = 0
  /\ mine = {}
  /\ now = 0
  /\ comments = {}
  /\ nextID = 1
  /\ bannedWords = NewCensorService
  /\ prev = NoPayload
  /\ sp = [c \in Clients |-> IdleClient]
  /\ cz = [g \in Goroutines |-> IdleGoroutine]

(***************************************************************************)
(* A request enters: requestIDMiddleware binds the correlation id, the     *)
(* timeout handler starts its timer and the handler runs to its first      *)
(* blocking point.                                                         *)
(***************************************************************************)
Enter(r, uuid) ==
  /\ pc = "idle"
  /\ req' = r
  /\ ctx' = requestIDMiddleware(r.header, uuid)
  /\ timedOut' = FALSE
  /\ startAt' = now
  /\ mine' = {}
  /\ UNCHANGED <<now, comments, nextID, bannedWords, prev, sp, cz>>

\* POST /comment: createCommentHandler blocks reading the body.
StartComment ==
  \E r \in CommentRequests : \E uuid \in NewUUIDs(r.header) :
    /\ nextID <= MaxComments
    /\ Enter(r, uuid)
    /\ pc' = "body"
    /\ out' = <<>>
    /\ net' = NoCall
    /\ hresp' = NoReply
    /\ callAt' = now

\* GET /news/{id}: getNewsByIDHandler up to the news aggregator call.
StartNewsByID ==
  \E r \in NewsByIDRequests : \E uuid \in NewUUIDs(r.header) :
    /\ Enter(r, uuid)
    /\ callAt' = now
    /\ IF ~Atoi(r.id).ok
       THEN /\ hresp' = HttpError("Invalid news ID", StatusBadRequest)
            /\ pc' = "done"
            /\ out' = <<>>
            /\ net' = NoCall
       ELSE LET call == Call("news", "GET", "/news/{id}",
                             GetHeader(requestIDMiddleware(r.header, uuid)),
                             [id |-> r.id])
            IN  /\ hresp' = NoReply
                /\ pc' = "news"
                /\ out' = <<[Logged(call) EXCEPT !.late = FALSE]>>
                /\ net' = call

\* GET /news: getNewsHandler up to the news aggregator call.
StartNews ==
  \E r \in NewsRequests : \E uuid \in NewUUIDs(r.header) :
    LET page0     == Atoi(r.page).v
        page      == IF page0 = 0 THEN 1 ELSE page0
        pageSize0 == Atoi(r.page_size).v
        pageSize  == IF pageSize0 = 0 THEN 10 ELSE pageSize0
        call      == Call("news", "GET", "/news",
                          GetHeader(requestIDMiddleware(r.header, uuid)),
                          [page |-> Itoa(page), page_size |-> Itoa(pageSize),
                           search |-> r.search])
    IN  /\ Enter(r, uuid)
        /\ callAt' = now
        /\ hresp' = NoReply
        /\ pc' = "newslist"
        /\ out' = <<[Logged(call) EXCEPT !.late = FALSE]>>
        /\ net' = call

(***************************************************************************)
(* createCommentHandler (gateway).                                         *)
(***************************************************************************)
\* The body is decoded and validated and the censor call is issued.  Once
\* the timeout handler has answered, the server aborts a pending read of the
\* body and closes it: the decoder fails, unless it had the whole body just
\* before.
ReadBody ==
  /\ pc = "body"
  /\ HandlerMayRun
  /\ \E closed \in (IF timedOut THEN BOOLEAN ELSE {FALSE}) :
       IF ~req.bodyOK \/ closed
       THEN Finish(HttpError("Invalid request body", StatusBadRequest), out)
       ELSE IF Validate(req) # ""
       THEN Finish(HttpError(Validate(req), StatusBadRequest), out)
       ELSE Issue("censor", Call("censor", "POST", "/check", PostHeader(ctx),
                                 [text |-> req.text]), out)

\* client.Do(censorReq) returns: a transport error or the censor's reply,
\* whose body may arrive cut short; the handler closes it unread.
CensorReturns ==
  /\ pc = "censor"
  /\ HandlerMayRun
  /\ \E err \in BOOLEAN, cut \in BOOLEAN :
       /\ ~err => net.stage = "replied"
       /\ err => ~cut
       /\ LET reply   == IF cut THEN Truncated(net.reply) ELSE net.reply
              verdict == AfterCensor(err, reply)
              log     == Returned(err, reply)
          IN  IF verdict = "unavailable"
              THEN Finish(HttpError("Failed to check comment with censor service",
                                    StatusInternalServerError), log)
              ELSE IF verdict = "rejected"
              THEN Finish(HttpError("Comment contains prohibited content",
                                    StatusBadRequest), log)
              ELSE Issue("store", Call("store", "POST", "/comments",
                                       PostHeader(ctx), CommentPayload(req)), log)

\* client.Do(commentReq) returns; the body of a reply may arrive cut short.
PersistReturns ==
  /\ pc = "store"
  /\ HandlerMayRun
  /\ \E err \in BOOLEAN, cut \in BOOLEAN :
       /\ ~err => net.stage = "replied"
       /\ err => ~cut
       /\ LET reply == IF cut THEN Truncated(net.reply) ELSE net.reply
          IN  Finish(AfterPersist(err, reply), Returned(err, reply))

(***************************************************************************)
(* getNewsByIDHandler and getNewsHandler (gateway).                        *)
(***************************************************************************)
ZeroNewsItem == [id |-> 0, title |-> <<>>, content |-> <<>>, date |-> 0]

\* json.Decode into a NewsItem keeps the fields a JSON object has of it.
DecodeNewsItem(reply) ==
  IF reply.data.t = "news" THEN reply.data.item ELSE ZeroNewsItem

\* client.Get(newsURL) returns, the item is decoded, the comments call issued.
NewsItemReturns ==
  /\ pc = "news"
  /\ HandlerMayRun
  /\ \E err \in BOOLEAN, cut \in BOOLEAN :
       /\ ~err => net.stage = "replied"
       /\ err => ~cut
       /\ LET reply == IF cut THEN Truncated(net.reply) ELSE net.reply
              log   == Returned(err, reply)
          IN  IF err
              THEN Finish(HttpError("Failed to fetch news",
                                    StatusInternalServerError), log)
              ELSE IF ~DecodeOK(reply)
              THEN Finish(HttpError("Failed to decode news response",
                                    StatusInternalServerError), log)
              ELSE Issue("comments",
                         Call("store", "GET", "/comments", GetHeader(ctx),
                              [news_id |-> Itoa(Atoi(req.id).v),
                               news |-> DecodeNewsItem(reply)]), log)

\* client.Get(commentsURL) returns and the two results are combined.
CommentsReturn ==
  /\ pc = "comments"
  /\ HandlerMayRun
  /\ \E err \in BOOLEAN, cut \in BOOLEAN :
       /\ ~err => net.stage = "replied"
       /\ err => ~cut
       /\ LET reply == IF cut THEN Truncated(net.reply) ELSE net.reply
              log   == Returned(err, reply)
          IN  IF err
              THEN Finish(HttpError("Failed to fetch comments",
                                    StatusInternalServerError), log)
              ELSE IF ~DecodeOK(reply)
              THEN Finish(HttpError("Failed to decode comments response",
                                    StatusInternalServerError), log)
              ELSE Finish(EncodeResponse("success",
                     [t |-> "detail", news |-> net.arg.news,
                      comments |-> reply.data, request_id |-> ctx]), log)

\* A relay that keeps the list and loses the pagination.
AfterNewsListWithoutPagination(err, reply) ==
  IF err THEN HttpError("Failed to fetch news", StatusInternalServerError)
  ELSE IF ~DecodeOK(reply)
  THEN HttpError("Failed to decode news response", StatusInternalServerError)
  ELSE EncodeResponse(reply.status,
                      IF reply.data.t = "newslist"
                      THEN [reply.data EXCEPT !.pagination = Nil]
                      ELSE reply.data)

\* getNewsHandler, what follows the aggregator call: the decoded Response
\* is encoded again, data and pagination as they came.
AfterNewsList(err, reply) ==
  IF err THEN HttpError("Failed to fetch news", StatusInternalServerError)
  ELSE IF ~DecodeOK(reply)
  THEN HttpError("Failed to decode news response", StatusInternalServerError)
  ELSE EncodeResponse(reply.status, reply.data)

\* client.Get(url) of getNewsHandler returns and the envelope is relayed.
NewsListReturns ==
  /\ pc = "newslist"
  /\ HandlerMayRun
  /\ \E err \in BOOLEAN, cut \in BOOLEAN :
       /\ ~err => net.stage = "replied"
       /\ err => ~cut
       /\ LET reply == IF cut THEN Truncated(net.reply) ELSE net.reply
          IN  Finish(AfterNewsList(err, reply), Returned(err, reply))

(***************************************************************************)
(* The services behind the gateway answer the call in flight.              *)
(***************************************************************************)
Replied(reply) == [net EXCEPT !.stage = "replied", !.reply = reply]

CensorServes ==
  /\ net.stage = "sent"
  /\ net.svc = "censor"
  /\ net' = Replied(checkHandler(net.arg.text))
  /\ UNCHANGED <<pc, req, ctx, out, hresp, timedOut, startAt, callAt, mine,
                 now, comments, nextID, bannedWords, prev, sp, cz>>

StoreCreates ==
  /\ net.stage = "sent"
  /\ net.svc = "store"
  /\ net.method = "POST"
  /\ \E dbErr \in DbErrs :
       LET done == storeCreateComment(net.arg, dbErr)
       IN  /\ net' = Replied(done.reply)
           /\ comments' = comments \cup done.rows
           /\ nextID' = nextID + Cardinality(done.rows)
           /\ mine' = mine \cup { c.id : c \in done.rows }
  /\ UNCHANGED <<pc, req, ctx, out, hresp, timedOut, startAt, callAt, now,
                 bannedWords, prev, sp, cz>>

StoreLists ==
  /\ net.stage = "sent"
  /\ net.svc = "store"
  /\ net.method = "GET"
  /\ \E dbErr \in {"none", "select"} :
       \E reply \in storeGetComments(net.arg.news_id, dbErr) :
          net' = Replied(reply)
  /\ UNCHANGED <<pc, req, ctx, out, hresp, timedOut, startAt, callAt, mine,
                 now, comments, nextID, bannedWords, prev, sp, cz>>

NewsServes ==
  /\ net.stage = "sent"
  /\ net.svc = "news"
  /\ net' = Replied(IF net.path = "/news"
                    THEN newsGetNewsHandler(net.arg.page, net.arg.page_size,
                                            net.arg.search, now)
                    ELSE newsGetNewsByIDHandler(net.arg.id, now))
  /\ UNCHANGED <<pc, req, ctx, out, hresp, timedOut, startAt, callAt, mine,
                 now, comments, nextID, bannedWords, prev, sp, cz>>

\* The handler goroutine has returned and the server is done with the
\* request: nothing of it is kept but what the services behind have stored.
RequestEnds ==
  /\ pc = "done"
  /\ pc' = "idle"
  /\ req' = NoRequest
  /\ ctx' = ""
  /\ out' = <<>>
  /\ hresp' = NoReply
  /\ timedOut' = FALSE
  /\ startAt' = now
  /\ callAt' = now
  /\ mine' = {}
  /\ UNCHANGED <<net, now, comments, nextID, bannedWords, prev, sp, cz>>

(***************************************************************************)
(* Time.                                                                   *)
(***************************************************************************)
\* The timer of http.TimeoutHandler fires: the client is answered 503 and
\* the handler goroutine is left running.
TimeoutFires ==
  /\ Running
  /\ ~timedOut
  /\ Elapsed >= OverallTimeout
  /\ timedOut' = TRUE
  /\ UNCHANGED <<pc, req, ctx, out, net, hresp, startAt, callAt, mine, now,
                 comments, nextID, bannedWords, prev, sp, cz>>

\* The clock advances.  A call in flight ends within http.Client.Timeout,
\* and a due timer fires before more time passes.
Tick ==
  /\ now < MaxTicks * TickLen
  /\ net.stage # "none" => (now + TickLen) - callAt <= ClientTimeout
  /\ (Running /\ ~timedOut) => Elapsed < OverallTimeout
  /\ now' = now + TickLen
  /\ UNCHANGED <<pc, req, ctx, out, net, hresp, timedOut, startAt, callAt,
                 mine, comments, nextID, bannedWords, prev, sp, cz>>

Next ==
  \/ StartComment
  \/ StartNewsByID
  \/ StartNews
  \/ ReadBody
  \/ CensorReturns
  \/ PersistReturns
  \/ NewsItemReturns
  \/ CommentsReturn
  \/ NewsListReturns
  \/ CensorServes
  \/ StoreCreates
  \/ StoreLists
  \/ NewsServes
  \/ RequestEnds
  \/ TimeoutFires
  \/ Tick

Spec == Init /\ [][Next]_vars

(***************************************************************************)
(* The same system seen by a client that keeps the payload of its last     *)
(* successful GET /news/{id}, with the value of the store's id sequence at *)
(* that time, to compare it with the payload of the next one.              *)
(***************************************************************************)
Kept ==
  IF req.kind = "newsByID" /\ ClientGot.status = "success"
  THEN [t |-> "detail", id |-> req.id, news |-> ClientGot.data.news,
        comments |-> ClientGot.data.comments, nextID |-> nextID]
  ELSE prev

RequestEndsKept ==
  /\ pc = "done"
  /\ pc' = "idle"
  /\ req' = NoRequest
  /\ ctx' = ""
  /\ out' = <<>>
  /\ hresp' = NoReply
  /\ timedOut' = FALSE
  /\ startAt' = now
  /\ callAt' = now
  /\ mine' = {}
  /\ prev' = Kept
  /\ UNCHANGED <<net, now, comments, nextID, bannedWords, sp, cz>>

NextRepeat ==
  \/ StartComment
  \/ StartNewsByID
  \/ StartNews
  \/ ReadBody
  \/ CensorReturns
  \/ PersistReturns
  \/ NewsItemReturns
  \/ CommentsReturn
  \/ NewsListReturns
  \/ CensorServes
  \/ StoreCreates
  \/ StoreLists
  \/ NewsServes
  \/ RequestEndsKept
  \/ TimeoutFires
  \/ Tick

SpecRepeat == Init /\ [][NextRepeat]_vars

(***************************************************************************)
(* The comment service on its own (src/comment-service/main.go): clients   *)
(* call POST /comments, DELETE /comments/{id} and GET /comments directly,  *)
(* and their handlers run concurrently, one database statement at a time.  *)
(***************************************************************************)
MaxStoreRows == 2
MaxStoreTicks == 1

gwVars == <<pc, req, ctx, out, net, hresp, timedOut, startAt, callAt, mine,
            bannedWords, prev, cz>>

\* The bodies of POST /comments: one that does not decode, one without
\* text, one without news id, and comments on two news items, the first
\* with every kind of parent_id.
StoreRequests ==
  { [bodyOK |-> FALSE, text |-> <<>>, news_id |-> 0, parent_id |-> Nil],
    [bodyOK |-> TRUE, text |-> <<>>, news_id |-> 1, parent_id |-> Nil],
    [bodyOK |-> TRUE, text |-> <<"h","i">>, news_id |-> 0, parent_id |-> Nil],
    [bodyOK |-> TRUE, text |-> <<"h","i">>, news_id |-> 2, parent_id |-> Nil] }
  \cup [bodyOK : {TRUE}, text : {<<"h","i">>}, news_id : {1},
        parent_id : ParentIDs]

StoreIDStrings == { <<"1">>, <<"2">>, <<"x">> }

\* createCommentHandler, decoding and input validation: the message, "" if
\* the request passes.
storeValidate(r) ==
  IF ~r.bodyOK THEN "Invalid request body"
  ELSE IF r.text = <<>> THEN "Comment text is required"
  ELSE IF r.news_id <= 0 THEN "Valid news ID is required"
  ELSE ""

\* The handler of client c writes its reply and returns.
Answer(c, me, reply, failed) ==
  sp' = [sp EXCEPT ![c] = [me EXCEPT !.pc = "done", !.reply = reply,
                                     !.failed = failed]]

\* INSERT INTO comments (news_id, parent_id, text) VALUES (?, ?, ?)
Insert(c, me, err) ==
  IF err \/ (ForeignKeys /\ InsertedRow(me.arg).parent_id # Nil
                         /\ ~ParentExists(Deref(me.arg.parent_id)))
  THEN /\ Answer(c, me, HttpError("Failed to save comment",
                                  StatusInternalServerError), TRUE)
       /\ UNCHANGED <<comments, nextID>>
  ELSE /\ comments' = comments \cup {InsertedRow(me.arg)}
       /\ nextID' = nextID + 1
       /\ sp' = [sp EXCEPT ![c] = [me EXCEPT !.pc = "fetch", !.id = NextRowID,
                                             !.wrote = {NextRowID}]]

\* POST /comments arrives: the handler runs up to its first statement, the
\* parent's existence query or, without a parent_id, the INSERT.
SCreate(c) ==
  /\ sp[c].pc = "idle"
  /\ nextID <= MaxStoreRows
  /\ \E r \in StoreRequests, err \in BOOLEAN :
       LET me == [IdleClient EXCEPT !.op = "create", !.arg = r,
                    !.found = \E q \in comments : Ptr(q.id) = r.parent_id]
       IN  IF storeValidate(r) # ""
           THEN /\ ~err
                /\ Answer(c, me, HttpError(storeValidate(r), StatusBadRequest),
                          FALSE)
                /\ UNCHANGED <<comments, nextID>>
           ELSE IF r.parent_id = Nil
           THEN Insert(c, me, err)
           ELSE /\ UNCHANGED <<comments, nextID>>
                /\ IF err
                   THEN Answer(c, me, HttpError("Failed to validate parent comment",
                                                StatusInternalServerError), TRUE)
                   ELSE IF ~ParentExists(Deref(r.parent_id))
                   THEN Answer(c, me, HttpError("Parent comment does not exist",
                                                StatusBadRequest), FALSE)
                   ELSE sp' = [sp EXCEPT ![c] = [me EXCEPT !.pc = "insert"]]
  /\ UNCHANGED <<gwVars, now>>

\* The INSERT of a comment with a parent_id, after the existence query.
SInsert(c) ==
  /\ sp[c].pc = "insert"
  /\ \E err \in BOOLEAN : Insert(c, sp[c], err)
  /\ UNCHANGED <<gwVars, now>>

\* SELECT ... FROM comments WHERE id = ? for the inserted row, and the reply.
SFetch(c) ==
  /\ sp[c].pc = "fetch"
  /\ \E err \in BOOLEAN :
       LET rows == {r \in comments : r.id = sp[c].id}
       IN  IF err \/ rows = {}
           THEN Answer(c, sp[c], HttpError("Failed to fetch inserted comment",
                                           StatusInternalServerError), TRUE)
           ELSE Answer(c, sp[c],
                       EncodeResponse("success",
                         [t |-> "comment", comment |-> CHOOSE r \in rows : TRUE]),
                       FALSE)
  /\ UNCHANGED <<gwVars, now, comments, nextID>>

\* A DELETE that takes the replies to the comment along.
DeletedRowsWithReplies(id) ==
  {r \in comments : r.id = id \/ r.parent_id = Ptr(id)}

\* DELETE FROM comments WHERE id = ?: the rows it removes.
DeletedRows(id) == {r \in comments : r.id = id}

\* An existence check that takes every id for a stored one.
CommentExistsAlways(id) == TRUE

\* SELECT 1 FROM comments WHERE id = ? of deleteCommentHandler.
CommentExists(id) == \E r \in comments : r.id = id

DeletedMessage == [t |-> "message", message |-> "Comment deleted successfully"]

\* DELETE /comments/{id} arrives: the handler parses the id and runs its
\* existence query.
SDeleteStart(c) ==
  /\ sp[c].pc = "idle"
  /\ \E idStr \in StoreIDStrings, err \in BOOLEAN :
       LET me == [IdleClient EXCEPT !.op = "delete", !.arg = [id |-> idStr],
                                    !.id = Atoi(idStr).v,
                    !.found = \E q \in comments : q.id = Atoi(idStr).v]
       IN  IF ~Atoi(idStr).ok
           THEN /\ ~err
                /\ Answer(c, me, HttpError("Invalid comment ID", StatusBadRequest),
                          FALSE)
           ELSE IF err
           THEN Answer(c, me, HttpError("Failed to check comment existence",
                                        StatusInternalServerError), TRUE)
           ELSE IF ~CommentExists(me.id)
           THEN Answer(c, me, HttpError("Comment not found", StatusNotFound),
                       FALSE)
           ELSE sp' = [sp EXCEPT ![c] = [me EXCEPT !.pc = "delete"]]
  /\ UNCHANGED <<gwVars, now, comments, nextID>>

\* The DELETE statement and the reply.
SDelete(c) ==
  /\ sp[c].pc = "delete"
  /\ \E err \in BOOLEAN :
       IF err \/ (ForeignKeys /\ \E r \in comments : r.parent_id = Ptr(sp[c].id))
       THEN /\ Answer(c, sp[c], HttpError("Failed to delete comment",
                                          StatusInternalServerError), TRUE)
            /\ UNCHANGED comments
       ELSE /\ comments' = comments \ DeletedRows(sp[c].id)
            /\ Answer(c, [sp[c] EXCEPT !.removed = DeletedRows(sp[c].id)],
                      EncodeResponse("success", DeletedMessage), FALSE)
  /\ UNCHANGED <<gwVars, now, nextID>>

\* GET /comments?news_id= : one query and the reply.
SList(c) ==
  /\ sp[c].pc = "idle"
  /\ \E newsIDStr \in {<<>>, <<"1">>}, dbErr \in {"none", "select"} :
       \E reply \in storeGetComments(newsIDStr, dbErr) :
          Answer(c, [IdleClient EXCEPT !.op = "list",
                                       !.arg = [news_id |-> newsIDStr]],
                 reply, dbErr # "none" /\ Atoi(newsIDStr).ok)
  /\ UNCHANGED <<gwVars, now, comments, nextID>>

\* The client has its reply and is free for its next request.
SEnd(c) ==
  /\ sp[c].pc = "done"
  /\ sp' = [sp EXCEPT ![c] = IdleClient]
  /\ UNCHANGED <<gwVars, now, comments, nextID>>

\* The clock of CURRENT_TIMESTAMP advances.
STick ==
  /\ now < MaxStoreTicks * TickLen
  /\ now' = now + TickLen
  /\ UNCHANGED <<gwVars, comments, nextID, sp>>

NextStore ==
  \/ \E c \in Clients : SCreate(c)
  \/ \E c \in Clients : SInsert(c)
  \/ \E c \in Clients : SFetch(c)
  \/ \E c \in Clients : SDeleteStart(c)
  \/ \E c \in Clients : SDelete(c)
  \/ \E c \in Clients : SList(c)
  \/ \E c \in Clients : SEnd(c)
  \/ STick

SpecStore == Init /\ [][NextStore]_vars

(***************************************************************************)
(* The censor service on its own (src/unnamed/part_000): goroutines call   *)
(* POST /check, AddBannedWord and RemoveBannedWord concurrently.  The      *)
(* RWMutex admits a reader when no writer holds it or waits for it, and a  *)
(* writer, one at a time, once the readers have left.                      *)
(***************************************************************************)
CensorWords == { <<"H","i">>, <<" ","q","w","e","r","t","y"," ">> }

otherVars == <<pc, req, ctx, out, net, hresp, timedOut, startAt, callAt, mine,
               now, comments, nextID, prev, sp>>

\* A service whose methods all take the read lock.
LockModeAllShared(op) == "R"

\* The lock a method takes: cs.mutex.RLock() or cs.mutex.Lock().
LockMode(op) == IF op = "IsBanned" THEN "R" ELSE "W"

Inside(g) == cz[g].pc = "in"

Writes(g) == cz[g].op \in {"AddBannedWord", "RemoveBannedWord"}

\* POST /check arrives: the body is decoded and IsBanned called.
CCheck(g) ==
  /\ cz[g].pc = "idle"
  /\ \E bodyOK \in BOOLEAN, text \in Texts :
       cz' = [cz EXCEPT ![g] =
                IF bodyOK
                THEN [IdleGoroutine EXCEPT !.pc = "call", !.op = "IsBanned",
                                           !.arg = text]
                ELSE [IdleGoroutine EXCEPT !.pc = "done", !.op = "check",
                        !.reply = HttpError("Invalid request body",
                                            StatusBadRequest)]]
  /\ UNCHANGED <<otherVars, bannedWords>>

\* AddBannedWord(word) or RemoveBannedWord(word) is called.
CUpdate(g) ==
  /\ cz[g].pc = "idle"
  /\ \E op \in {"AddBannedWord", "RemoveBannedWord"}, word \in CensorWords :
       cz' = [cz EXCEPT ![g] =
                [IdleGoroutine EXCEPT !.pc = "call", !.op = op, !.arg = word]]
  /\ UNCHANGED <<otherVars, bannedWords>>

\* RLock() returns, or Lock() has shut out the readers and writers to come.
CAcquire(g) ==
  /\ cz[g].pc = "call"
  /\ \A h \in Goroutines : cz[h].held # "W" /\ cz[h].pc # "drain"
  /\ cz' = [cz EXCEPT ![g] =
              IF LockMode(cz[g].op) = "R"
              THEN [@ EXCEPT !.pc = "in", !.held = "R"]
              ELSE [@ EXCEPT !.pc = "drain"]]
  /\ UNCHANGED <<otherVars, bannedWords>>

\* Lock() returns when the last reader has left.
CDrained(g) ==
  /\ cz[g].pc = "drain"
  /\ \A h \in Goroutines : cz[h].held = ""
  /\ cz' = [cz EXCEPT ![g] = [@ EXCEPT !.pc = "in", !.held = "W"]]
  /\ UNCHANGED <<otherVars, bannedWords>>

\* The body of the method runs, the deferred unlock releases the lock, and
\* checkHandler writes its reply.
CLeave(g) ==
  /\ cz[g].pc = "in"
  /\ bannedWords' =
       IF cz[g].op = "AddBannedWord"
       THEN bannedWords \cup {ToLower(TrimSpace(cz[g].arg))}
       ELSE IF cz[g].op = "RemoveBannedWord"
       THEN bannedWords \ {ToLower(TrimSpace(cz[g].arg))}
       ELSE bannedWords
  /\ cz' = [cz EXCEPT ![g] =
              [@ EXCEPT !.pc = "done", !.held = "",
                        !.seen = IF cz[g].op = "IsBanned" THEN bannedWords
                                                          ELSE {},
                        !.reply = IF cz[g].op = "IsBanned"
                                  THEN checkHandler(cz[g].arg) ELSE NoReply]]
  /\ UNCHANGED otherVars

\* The call is over.
CEnd(g) ==
  /\ cz[g].pc = "done"
  /\ cz' = [cz EXCEPT ![g] = IdleGoroutine]
  /\ UNCHANGED <<otherVars, bannedWords>>

NextCensor ==
  \/ \E g \in Goroutines : CCheck(g)
  \/ \E g \in Goroutines : CUpdate(g)
  \/ \E g \in Goroutines : CAcquire(g)
  \/ \E g \in Goroutines : CDrained(g)
  \/ \E g \in Goroutines : CLeave(g)
  \/ \E g \in Goroutines : CEnd(g)

SpecCensor == Init /\ [][NextCensor]_vars

(***************************************************************************)
(* Properties.                                                             *)
(***************************************************************************)
CallsTo(svc, method) ==
  { i \in 1..Len(out) : out[i].svc = svc /\ out[i].method = method }

CallEnded(i) == out[i].outcome # "pending"

CallAnswered(i) == out[i].outcome \in {"reply", "undecodable"}

\* C1: when the censor answers POST /check with a status other than 200, the
\* handler of POST /comment has issued no POST /comments, no row was written
\* for the request, and the handler has answered 400, which is what the
\* client receives unless the timeout handler had answered before.
C1_RejectedIsNotPersisted ==
  (/\ req.kind = "comment"
   /\ \E i \in CallsTo("censor", "POST") :
         CallAnswered(i) /\ out[i].code # StatusOK)
  => /\ CallsTo("store", "POST") = {}
     /\ mine = {}
     /\ pc = "done"
     /\ hresp.code = StatusBadRequest
     /\ ~timedOut => ClientGot.code = StatusBadRequest

C1_Witness ==
  /\ req.kind = "comment"
  /\ pc = "done"
  /\ ~timedOut
  /\ \E i \in CallsTo("censor", "POST") :
        CallAnswered(i) /\ out[i].code = StatusBadRequest
  /\ ClientGot.code = StatusBadRequest
  /\ comments = {}

\* C2: when the censor call fails at transport level, the handler of POST
\* /comment has issued no POST /comments, no row was written for the request,
\* and the handler has answered 500, which is what the client receives unless
\* the timeout handler had answered before.
C2_FailClosed ==
  (/\ req.kind = "comment"
   /\ \E i \in CallsTo("censor", "POST") : out[i].outcome = "error")
  => /\ CallsTo("store", "POST") = {}
     /\ mine = {}
     /\ pc = "done"
     /\ hresp.code = StatusInternalServerError
     /\ ~timedOut => ClientGot.code = StatusInternalServerError

C2_Witness ==
  /\ req.kind = "comment"
  /\ pc = "done"
  /\ ~timedOut
  /\ \E i \in CallsTo("censor", "POST") : out[i].outcome = "error"
  /\ ClientGot.code = StatusInternalServerError
  /\ ~IsBanned(req.text)

\* C3: when the handler of POST /comment has answered (and the timeout
\* handler has not), either the answer is a success and exactly one row
\* exists for the request, or it is a failure and no row exists for it.
C3_NoPartialSuccess ==
  (req.kind = "comment" /\ pc = "done" /\ ~timedOut)
  => \/ /\ ClientGot.code = StatusOK
        /\ ClientGot.status = "success"
        /\ Cardinality({c \in comments : c.id \in mine}) = 1
     \/ /\ ClientGot.code >= StatusBadRequest
        /\ {c \in comments : c.id \in mine} = {}

\* C4: once the censor has answered 200 for a POST /comment, exactly one POST
\* /comments has been issued for the request; and when that call has returned
\* 200 with a decodable body, exactly one row was written for the request and
\* the handler has answered with the success envelope carrying that row, with
\* the id and created_at the store gave it.
C4_AllowedIsPersistedOnce ==
  (/\ req.kind = "comment"
   /\ \E i \in CallsTo("censor", "POST") :
         CallAnswered(i) /\ out[i].code = StatusOK)
  => /\ Cardinality(CallsTo("store", "POST")) = 1
     /\ \A j \in CallsTo("store", "POST") :
          (out[j].outcome = "reply" /\ out[j].code = StatusOK)
          => /\ pc = "done"
             /\ hresp.code = StatusOK
             /\ hresp.fmt = "json"
             /\ hresp.status = "success"
             /\ hresp.data.t = "comment"
             /\ hresp.data.comment \in comments
             /\ mine = {hresp.data.comment.id}
             /\ hresp.data.comment.id = nextID - 1
             /\ hresp.data.comment.news_id = req.news_id
             /\ hresp.data.comment.text = req.text
             /\ hresp.data.comment.created_at <= now
             /\ ~timedOut => ClientGot = hresp

C4_Witness ==
  /\ req.kind = "comment"
  /\ pc = "done"
  /\ ~timedOut
  /\ Cardinality(CallsTo("store", "POST")) = 1
  /\ ClientGot.status = "success"
  /\ ClientGot.data.t = "comment"
  /\ ClientGot.data.comment.id = 2
  /\ ClientGot.data.comment.parent_id = Ptr(1)
  /\ Cardinality(comments) = 2

\* C5: a POST /comment whose body has an empty text or a news_id <= 0 makes
\* no downstream call at all, and its handler answers 400, which is what the
\* client receives unless the timeout handler had answered before.
C5_InvalidMakesNoCall ==
  (/\ req.kind = "comment"
   /\ req.bodyOK
   /\ (req.text = <<>> \/ req.news_id <= 0))
  => /\ out = <<>>
     /\ net.stage = "none"
     /\ mine = {}
     /\ pc = "done" => /\ hresp.code = StatusBadRequest
                       /\ ~timedOut => ClientGot.code = StatusBadRequest

C5_Witness ==
  /\ req.kind = "comment"
  /\ req.bodyOK
  /\ req.text # <<>>
  /\ req.news_id <= 0
  /\ pc = "done"
  /\ ~timedOut
  /\ ClientGot.code = StatusBadRequest
  /\ out = <<>>

\* C6: a GET /news/{id} whose id is a number of no news item makes no GET
\* /comments call, and its handler answers with a failure.
C6_UnknownNewsFetchesNoComments ==
  (/\ req.kind = "newsByID"
   /\ Atoi(req.id).ok
   /\ \A i \in 1..Len(MockNews(now)) : MockNews(now)[i].id # Atoi(req.id).v)
  => /\ CallsTo("store", "GET") = {}
     /\ pc = "done" => /\ ClientGot.code >= StatusBadRequest
                       /\ ClientGot.status # "success"

C6_Witness ==
  /\ req.kind = "newsByID"
  /\ req.id = <<"9">>
  /\ pc = "done"
  /\ Len(out) = 1
  /\ out[1].outcome = "undecodable"
  /\ out[1].code = StatusNotFound
  /\ ClientGot.code = StatusInternalServerError

\* C7: every downstream call made for a request carries the request's
\* correlation identifier as its X-Request-ID header.
C7_CorrelationOnEveryCall ==
  \A i \in 1..Len(out) : out[i].xrid = ctx

\* C8: the correlation identifier of a request is the inbound X-Request-ID
\* header when that is not empty and a generated, non-empty value otherwise;
\* the handler's later reads of it (the headers it sets on its POST calls, the
\* request_id of the GET /news/{id} payload) give that same value.
C8_CorrelationAtIngress ==
  pc # "idle"
  => /\ ctx # ""
     /\ req.header # "" => ctx = req.header
     /\ req.header = "" => ctx \in UUIDs
     /\ \A i \in 1..Len(out) : out[i].method = "POST" => out[i].xrid = ctx
     /\ hresp.data.t = "detail" => hresp.data.request_id = ctx

C8_Witness ==
  /\ req.kind = "newsByID"
  /\ req.header = "rid-7"
  /\ pc = "done"
  /\ ClientGot.status = "success"
  /\ ClientGot.data.t = "detail"
  /\ ClientGot.data.request_id = "rid-7"

\* C9: every failure a handler answers with is the envelope with status
\* "error" and the message in its error field.
C9_UniformErrorEnvelope ==
  (pc = "done" /\ hresp.code >= StatusBadRequest)
  => /\ hresp.fmt = "json"
     /\ hresp.status = "error"
     /\ hresp.error # ""

\* C10: when the timeout handler answers a request while a downstream call
\* of it is in flight, that call is the last one made for the request: no
\* call issued after the timeout answer follows one issued before it.
C10_NothingRunsAfterTimeout ==
  \A i \in 2..Len(out) : out[i].late => out[i - 1].late

\* C11: when the timeout handler has answered a POST /comment, no row has
\* been written for that request, at that moment or later.
C11_TimeoutWritesNothing ==
  (req.kind = "comment" /\ timedOut) => mine = {}

\* C12: for GET /news/{id}, when the GET /comments call failed at transport
\* level, or was answered with a status other than 200 or with a body that
\* does not decode, the handler has answered with a failure; and a success
\* answer comes only after both calls were answered 200 with decodable
\* bodies, and carries the news item of that id together with the comment
\* list of the store's reply.
C12_DetailIsAllOrNothing ==
  req.kind = "newsByID"
  => /\ \A i \in CallsTo("store", "GET") :
          (CallEnded(i) /\ (out[i].outcome # "reply" \/ out[i].code # StatusOK))
          => /\ pc = "done"
             /\ ClientGot.code >= StatusBadRequest
             /\ ClientGot.status # "success"
     /\ ClientGot.status = "success"
        => /\ Len(out) = 2
           /\ out[1].svc = "news"
           /\ out[2].svc = "store"
           /\ \A i \in 1..2 : out[i].outcome = "reply" /\ out[i].code = StatusOK
           /\ ClientGot.data.t = "detail"
           /\ ClientGot.data.news.id = Atoi(req.id).v
           /\ ClientGot.data.comments.t = "comments"
           /\ \A k \in 1..Len(ClientGot.data.comments.list) :
                /\ ClientGot.data.comments.list[k] \in comments
                /\ ClientGot.data.comments.list[k].news_id = Atoi(req.id).v

C12_Witness ==
  /\ req.kind = "newsByID"
  /\ pc = "done"
  /\ Len(out) = 2
  /\ out[1].outcome = "reply"
  /\ out[2].outcome = "undecodable"
  /\ out[2].code = StatusInternalServerError
  /\ ClientGot.code = StatusInternalServerError
  /\ comments # {}

\* C13: a GET /news/{id} whose id is a number of no news item, and whose
\* call to the aggregator was answered 404, is answered 404.
C13_UnknownNewsIs404 ==
  (/\ req.kind = "newsByID"
   /\ Atoi(req.id).ok
   /\ \A i \in 1..Len(MockNews(now)) : MockNews(now)[i].id # Atoi(req.id).v
   /\ pc = "done"
   /\ \E i \in CallsTo("news", "GET") :
         CallAnswered(i) /\ out[i].code = StatusNotFound)
  => ClientGot.code = StatusNotFound

\* C14: a GET /news/{id} answered with success, after an earlier one for the
\* same id was, and with no comment row written in between, carries the
\* same news item (its date included) and the same comments.
C14_RepeatedDetailIsIdentical ==
  (/\ req.kind = "newsByID"
   /\ pc = "done"
   /\ ClientGot.status = "success"
   /\ prev.t = "detail"
   /\ prev.id = req.id
   /\ prev.nextID = nextID)
  => /\ ClientGot.data.news = prev.news
     /\ ClientGot.data.comments = prev.comments

\* C15: when the censor's reply to POST /check cannot be decoded, the
\* handler of POST /comment has issued no POST /comments and has answered
\* 500.
C15_UndecodableVerdictIsUnavailable ==
  (/\ req.kind = "comment"
   /\ \E i \in CallsTo("censor", "POST") :
         out[i].outcome = "undecodable" /\ out[i].code = StatusOK)
  => /\ CallsTo("store", "POST") = {}
     /\ pc = "done"
     /\ hresp.code = StatusInternalServerError

\* A request of client c has been answered.
Answered(c, op) == sp[c].op = op /\ sp[c].pc = "done"

\* C16: every stored comment with a parent_id has its parent in the store.
C16_ParentsExist ==
  \A r \in comments :
     r.parent_id # Nil => \E q \in comments : q.id = Deref(r.parent_id)

\* C17: a POST /comments that passes validation, with a parent_id that no
\* stored comment had when the handler asked the database, is answered 400
\* (unless that query itself failed, which is a 500) and has written and
\* removed no row.
C17_UnknownParentIsRejected ==
  \A c \in Clients :
     (/\ sp[c].op = "create"
      /\ storeValidate(sp[c].arg) = ""
      /\ sp[c].arg.parent_id # Nil
      /\ ~sp[c].found)
     => /\ sp[c].pc = "done"
        /\ sp[c].wrote = {}
        /\ sp[c].removed = {}
        /\ sp[c].reply.code = IF sp[c].failed THEN StatusInternalServerError
                                              ELSE StatusBadRequest

C17_Witness ==
  \E c \in Clients :
     /\ Answered(c, "create")
     /\ sp[c].arg.parent_id = Ptr(1)
     /\ ~sp[c].found
     /\ sp[c].reply.code = StatusBadRequest
     /\ sp[c].reply.error = "Parent comment does not exist"
     /\ comments # {}

\* C18: a POST /comments that passes validation, with parent_id 0, whose
\* statements the database ran without error, is answered with success and
\* the stored comment has no parent.
C18_ZeroParentIsNoParent ==
  \A c \in Clients :
     (/\ Answered(c, "create")
      /\ storeValidate(sp[c].arg) = ""
      /\ sp[c].arg.parent_id = Ptr(0)
      /\ ~sp[c].failed)
     => /\ sp[c].reply.code = StatusOK
        /\ sp[c].reply.status = "success"
        /\ sp[c].reply.data.comment.parent_id = Nil

\* C19: a step of the comment service leaves every stored row as it is or
\* removes it; the only row a step removes is the one whose id a DELETE
\* /comments/{id} handler names, in the step that answers it with success;
\* a new row takes the next id of the sequence, so no id is ever held by two
\* rows or given again.
C19_RowsAreImmutable ==
  [][/\ \A r \in comments :
          (\E q \in comments' : q.id = r.id) => r \in comments'
     /\ \A q1, q2 \in comments' : q1.id = q2.id => q1 = q2
     /\ Cardinality(comments \ comments') <= 1
     /\ \A r \in comments \ comments' :
          \E c \in Clients :
             /\ sp[c].op = "delete"
             /\ sp[c].pc = "delete"
             /\ sp[c].id = r.id
             /\ sp'[c].pc = "done"
             /\ sp'[c].reply.status = "success"
     /\ \A q \in comments' \ comments :
          /\ q.id = nextID
          /\ nextID' = nextID + 1
          /\ q.created_at = now
          /\ \A r \in comments : r.id < q.id
    ]_vars

C19_Witness ==
  \E c \in Clients :
     /\ Answered(c, "delete")
     /\ sp[c].reply.status = "success"
     /\ \E r \in sp[c].removed : r.id = 1
     /\ \E q \in comments : q.id = 2 /\ q.parent_id = Ptr(1)

\* C20: a DELETE /comments/{id} with a numeric id whose statements the
\* database ran without error: when no stored comment had the id as the
\* request arrived, it is answered 404 and has written and removed nothing;
\* when one had, it is answered with success and no stored comment has the
\* id any more.
C20_DeleteByID ==
  \A c \in Clients :
     (sp[c].op = "delete" /\ Atoi(sp[c].arg.id).ok)
     => /\ ~sp[c].found => /\ sp[c].pc = "done"
                           /\ sp[c].wrote = {}
                           /\ sp[c].removed = {}
                           /\ ~sp[c].failed
                              => /\ sp[c].reply.code = StatusNotFound
                                 /\ sp[c].reply.error = "Comment not found"
        /\ (sp[c].found /\ sp[c].pc = "done" /\ ~sp[c].failed)
           => /\ sp[c].reply.code = StatusOK
              /\ sp[c].reply.status = "success"
              /\ \A r \in comments : r.id # sp[c].id
              /\ \A r \in sp[c].removed : r.id = sp[c].id

C20_Witness ==
  \E c \in Clients :
     /\ Answered(c, "delete")
     /\ sp[c].arg.id = <<"2">>
     /\ ~sp[c].found
     /\ sp[c].reply.code = StatusNotFound
     /\ \E r \in comments : r.id = 1

\* C21: while a goroutine is inside AddBannedWord or RemoveBannedWord, with
\* the map in its hands, no other goroutine is inside IsBanned,
\* AddBannedWord or RemoveBannedWord; the ones inside hold the lock their
\* method takes.
C21_WritersAreAlone ==
  \A g \in Goroutines :
     /\ (Inside(g) /\ Writes(g))
        => /\ cz[g].held = "W"
           /\ \A h \in Goroutines \ {g} : ~Inside(h) /\ cz[h].held = ""
     /\ (Inside(g) /\ ~Writes(g)) => cz[g].held = "R"

\* Two IsBanned calls are reading at the same time, a writer waiting.
C21_Witness ==
  \E g, h, w \in Goroutines :
     /\ g # h
     /\ Inside(g) /\ cz[g].op = "IsBanned"
     /\ Inside(h) /\ cz[h].op = "IsBanned"
     /\ Writes(w) /\ cz[w].pc = "call"
     /\ bannedWords # NewCensorService

\* Two letters that differ at most in case.
SameLetter(a, b) ==
  \/ a = b
  \/ \E k \in 1..Len(UpperLetters) :
        {a, b} = {UpperLetters[k], LowerLetters[k]}

\* The word occurs in the text, letter case aside.
OccursIn(word, text) ==
  \E i \in 0..(Len(text) - Len(word)) :
     \A j \in 1..Len(word) : SameLetter(text[i + j], word[j])

\* C22: a POST /check with a well-formed body is answered 400 when a word
\* of the banned set, as the set is when IsBanned looks at it, occurs in the
\* text, letter case aside, and 200 otherwise.
C22_CheckRejectsBannedText ==
  \A g \in Goroutines :
     (cz[g].pc = "done" /\ cz[g].op = "IsBanned")
     => cz[g].reply.code =
          IF \E w \in cz[g].seen : OccursIn(w, cz[g].arg)
          THEN StatusBadRequest ELSE StatusOK

C22_Witness ==
  \E g \in Goroutines :
     /\ cz[g].pc = "done"
     /\ cz[g].op = "IsBanned"
     /\ cz[g].arg = <<"a","Q","w","E","r","t","y">>
     /\ cz[g].seen = NewCensorService \cup {<<"h","i">>}
     /\ cz[g].reply.code = StatusBadRequest

\* C23: for GET /news/{id} the request to the news aggregator and the GET
\* /comments request are sent without either waiting for the other's reply:
\* while one of the two is on its way, the other has been sent as well.
C23_DetailCallsInParallel ==
  (/\ req.kind = "newsByID"
   /\ \E i \in 1..Len(out) : ~CallEnded(i))
  => /\ CallsTo("news", "GET") # {}
     /\ CallsTo("store", "GET") # {}

\* C24: the step in which getNewsHandler answers: when the aggregator's
\* call was answered 200 with a body that decodes, the answer is the
\* aggregator's envelope, its status, list and pagination as they came;
\* when the call failed, or was answered with another status or a body that
\* does not decode, the answer is 500.
C24_NewsListIsRelayed ==
  [][(req.kind = "news" /\ pc = "newslist" /\ pc' = "done")
     => IF out'[1].outcome = "reply" /\ out'[1].code = StatusOK
        THEN /\ hresp'.code = StatusOK
             /\ hresp'.fmt = "json"
             /\ hresp'.status = net.reply.status
             /\ hresp'.data = net.reply.data
             /\ hresp'.data.t = "newslist"
             /\ hresp'.data.pagination # Nil
        ELSE hresp'.code = StatusInternalServerError
    ]_vars

C24_Witness ==
  /\ req.kind = "news"
  /\ req.page = <<"2">>
  /\ req.page_size = <<"2">>
  /\ pc = "done"
  /\ ClientGot.status = "success"
  /\ ClientGot.data.t = "newslist"
  /\ Len(ClientGot.data.list) = 2
  /\ Deref(ClientGot.data.pagination).page = 2
  /\ Deref(ClientGot.data.pagination).page_size = 2

\* C25: when the POST /comments call of a POST /comment ended in anything
\* but a 200 reply with a body that decodes, the handler has answered 500,
\* which is what the client receives unless the timeout handler had
\* answered before; the client never receives a success.
C25_PersistFailureIs500 ==
  (/\ req.kind = "comment"
   /\ \E j \in CallsTo("store", "POST") :
         /\ CallEnded(j)
         /\ ~(out[j].outcome = "reply" /\ out[j].code = StatusOK))
  => /\ pc = "done"
     /\ hresp.code = StatusInternalServerError
     /\ ClientGot.status # "success"
     /\ ClientGot.code # StatusOK
     /\ ~timedOut => ClientGot.code = StatusInternalServerError

C25_Witness ==
  /\ req.kind = "comment"
  /\ req.parent_id = Ptr(1)
  /\ pc = "done"
  /\ ~timedOut
  /\ \E j \in CallsTo("store", "POST") :
        out[j].outcome = "undecodable" /\ out[j].code = StatusBadRequest
  /\ ClientGot.code = StatusInternalServerError
  /\ comments = {}

\* C26: no two stored comments share an id; nextID is above every id the
\* table holds and never goes down; a new row takes an id that is above all
\* the ids given before it, also those of rows deleted since, so the id of a
\* deleted comment is never given again; and a POST /comments answered with
\* success returns the id of the row it wrote.
C26_IdsOnlyGrow ==
  /\ [](/\ \A r \in comments : r.id < nextID
        /\ \A q, r \in comments : q.id = r.id => q = r
        /\ \A c \in Clients :
             (Answered(c, "create") /\ sp[c].reply.status = "success")
             => sp[c].wrote = {sp[c].reply.data.comment.id})
  /\ [][/\ nextID' >= nextID
        /\ \A q \in comments' \ comments :
             /\ q.id >= nextID
             /\ nextID' > q.id
             /\ \A r \in comments : r.id < q.id]_vars

C26_Witness ==
  /\ \E c \in Clients :
        /\ Answered(c, "delete")
        /\ sp[c].removed # {}
        /\ sp[c].id = 2
  /\ \E c \in Clients :
        /\ Answered(c, "create")
        /\ sp[c].reply.status = "success"
        /\ sp[c].reply.data.comment.id = 3
  /\ \A r \in comments : r.id # 2

NewsListServed ==
  net.svc = "news" /\ net.path = "/news" /\ net.stage = "replied"

\* C28: the aggregator answers every GET /news, whatever integers page and
\* page_size are, with the success envelope: its slice bounds are in range.
C28_PageSliceInRange ==
  NewsListServed
  => /\ net.reply.code = StatusOK
     /\ net.reply.status = "success"
     /\ net.reply.data.t = "newslist"

\* The number of items of the whole dataset that match the search.
Matching(search) ==
  Cardinality({ i \in 1..Len(MockNews(now)) :
                  \/ search = <<>>
                  \/ containsIgnoreCase(MockNews(now)[i].title, search)
                  \/ containsIgnoreCase(MockNews(now)[i].content, search) })

\* C29: in a success answer of the aggregator to GET /news, total is the
\* number of items matching the search, whatever the page, and total_pages
\* is total divided by page_size, rounded up.
C29_TotalCountsAllMatches ==
  (NewsListServed /\ net.reply.status = "success")
  => LET p == Deref(net.reply.data.pagination)
     IN  /\ p.total = Matching(net.arg.search)
         /\ p.page_size > 0
            => /\ (p.total_pages - 1) * p.page_size < p.total
               /\ p.total <= p.total_pages * p.page_size

====
